---------------------------- MODULE Spec2Model ----------------------------
(***************************************************************************)
(* Bit-sliced SHA-256 over field elements (SerxaS/sha256).                 *)
(*                                                                         *)
(* A field element is modelled by an integer.  Every value the algebra     *)
(* produces from valid bits lies in -2..3, far below the characteristic    *)
(* of the Pasta field the code is instantiated with, so no reduction       *)
(* modulo the characteristic ever takes place and integer arithmetic is    *)
(* exact.  Rust index i of an array is index i+1 of the sequence.          *)
(* A u32 is a pair <<hi, lo>> of its 16-bit halves.                        *)
(***************************************************************************)
EXTENDS Integers, Sequences, FiniteSets, TLC

\* ------------------------------------------------------------------------
\* sha_helpers.rs : bit conversion
\* ------------------------------------------------------------------------

\* std::array::from_fn / a filled array: the elements computed once, in order.
array(f) == f \o << >>

\* Rust computes a call's arguments before the call and a loop's iterations
\* one after the other.  ready(x) holds of every sequence x; testing it makes
\* TLC compute x at that point instead of where x is first read.
ready(x) == Len(x) >= 0

\* n >> k on an unsigned integer.
RECURSIVE shr(_, _)
shr(n, k) == IF k = 0 \/ n = 0 THEN n ELSE shr(n \div 2, k - 1)

\* to_bits_be::<_, N>(num): bit i is (n >> (N - 1 - i)) & 1.
to_bits_be(num, N) == array([j \in 1..N |-> shr(num, N - j) % 2])

\* from_hex after hex::decode: every byte, most significant bit first.
from_bytes(bytes) ==
    array([j \in 1..(8 * Len(bytes)) |->
              shr(bytes[((j - 1) \div 8) + 1], 7 - ((j - 1) % 8)) % 2])

\* bits_to_field::<F, N>(bits): the first N bits lifted, the rest zero.
bits_to_field(bits, N) ==
    array([j \in 1..N |-> IF j <= Len(bits) THEN bits[j] ELSE 0])

\* ------------------------------------------------------------------------
\* sha_helpers.rs : field bitwise logic
\* ------------------------------------------------------------------------

and(a, b) == array([i \in 1..Len(a) |-> a[i] * b[i]])

not(a) == array([i \in 1..Len(a) |-> 1 - a[i]])

\* A XOR that leaves out the correction term -2ab.
xor_uncorrected(a, b) == array([i \in 1..Len(a) |-> a[i] + b[i]])

xor(a, b) ==
    LET and_ab == and(a, b)
    IN  array([i \in 1..Len(a) |-> a[i] + b[i] - 2 * and_ab[i]])

\* A rotation to the left: rotated[i] = word[(i + rot) % N].
rotate_left(rot, word) ==
    LET N == Len(word)
    IN  array([j \in 1..N |-> word[((j - 1 + rot) % N) + 1]])

\* rotated[(i + rot) % N] = word[i]
rotate_right(rot, word) ==
    LET N == Len(word)
    IN  array([j \in 1..N |-> word[((j - 1 - rot) % N) + 1]])

\* shifted[shift..] = word[..N - shift] when shift < N, all zero otherwise
right_shift(shift, word) ==
    LET N == Len(word)
    IN  array([j \in 1..N |->
              IF shift < N /\ j > shift THEN word[j - shift] ELSE 0])

\* An addition step that never carries into the next bit.
add_step_carryless(a, b, st, i) ==
    LET sum == a[i] + b[i]
    IN  <<0, [st[2] EXCEPT ![i] = IF sum >= 2 THEN sum - 2 ELSE sum]>>

\* One iteration of the loop of wrapping_add, at Rust index i - 1:
\* st is <<carry, result>>.
add_step(a, b, st, i) ==
    LET sum == a[i] + b[i] + st[1]
    IN  IF sum >= 2
        THEN <<1, [st[2] EXCEPT ![i] = sum - 2]>>
        ELSE <<0, [st[2] EXCEPT ![i] = sum]>>

\* for i in (0..32).rev(): the iterations at Rust indices hi-1 down to lo,
\* in that order.  The range is cut in four only to keep TLC's evaluation
\* shallow: q1 runs first, then q2, q3 and the rest.
RECURSIVE add_loop(_, _, _, _, _)
add_loop(a, b, st, lo, hi) ==
    IF hi <= lo THEN st
    ELSE IF hi - lo = 1 THEN add_step(a, b, st, hi)
    ELSE LET n  == (hi - lo + 3) \div 4
             m1 == hi - n
             m2 == IF m1 - n > lo THEN m1 - n ELSE lo
             m3 == IF m2 - n > lo THEN m2 - n ELSE lo
             q1 == add_loop(a, b, st, m1, hi)
             q2 == add_loop(a, b, q1, m2, m1)
             q3 == add_loop(a, b, q2, m3, m2)
         IN  IF ready(q1) /\ ready(q2) /\ ready(q3)
             THEN add_loop(a, b, q3, lo, m3)
             ELSE st

wrapping_add(a, b) ==
    IF ready(a) /\ ready(b)
    THEN add_loop(a, b, <<0, array([i \in 1..32 |-> 0])>>, 0, 32)[2]
    ELSE a

\* ------------------------------------------------------------------------
\* constants.rs (not among the source files): the standard SHA-256 initial
\* hash values and round constants, each a u32 given by its 16-bit halves
\* and encoded once as a big-endian word of field bits.
\* ------------------------------------------------------------------------

word_of(u) == to_bits_be(u[1], 16) \o to_bits_be(u[2], 16)

H_INIT ==
    << <<27145, 58983>>, <<47975, 44677>>, <<15470, 62322>>, <<42319, 62778>>,
       <<20750, 21119>>, <<39685, 26764>>, <<8067, 55723>>, <<23520, 52505>> >>

K_INIT ==
    << <<17034, 12184>>, <<28983, 17553>>, <<46528, 64463>>, <<59829, 56229>>,
       <<14678, 49755>>, <<23025, 4593>>, <<37439, 33444>>, <<43804, 24277>>,
       <<55303, 43672>>, <<4739, 23297>>, <<9265, 34238>>, <<21772, 32195>>,
       <<29374, 23924>>, <<32990, 45566>>, <<39900, 1703>>, <<49563, 61812>>,
       <<58523, 27073>>, <<61374, 18310>>, <<4033, 40390>>, <<9228, 41420>>,
       <<11753, 11375>>, <<19060, 33962>>, <<23728, 43484>>, <<30457, 35034>>,
       <<38974, 20818>>, <<43057, 50797>>, <<45059, 10184>>, <<48985, 32711>>,
       <<50912, 3059>>, <<54695, 37191>>, <<1738, 25425>>, <<5161, 10599>>,
       <<10167, 2693>>, <<11803, 8504>>, <<19756, 28156>>, <<21304, 3347>>,
       <<25866, 29524>>, <<30314, 2747>>, <<33218, 51502>>, <<37490, 11397>>,
       <<41663, 59553>>, <<43034, 26187>>, <<49739, 35696>>, <<51052, 20899>>,
       <<53650, 59417>>, <<54937, 1572>>, <<62478, 13701>>, <<4202, 41072>>,
       <<6564, 49430>>, <<7735, 27656>>, <<10056, 30540>>, <<13488, 48309>>,
       <<14620, 3251>>, <<20184, 43594>>, <<23452, 51791>>, <<26670, 28659>>,
       <<29839, 33518>>, <<30885, 25455>>, <<33992, 30740>>, <<36039, 520>>,
       <<37054, 65530>>, <<42064, 27883>>, <<48889, 41975>>, <<50801, 30962>> >>

initial_state == array([w \in 1..8 |-> word_of(H_INIT[w])])

round_constants == array([i \in 1..64 |-> word_of(K_INIT[i])])

\* ------------------------------------------------------------------------
\* dynamic_sha256.rs : DynamicSha256
\* ------------------------------------------------------------------------

\* The body of `for i in 16..64`: W holds the words of Rust indices 0..i-1
\* and gains W[i].
dyn_schedule_step(W, i) ==
    LET w15 == W[i - 15 + 1]
        w2  == W[i - 2 + 1]
        s0  == xor(xor(rotate_right(7, w15), rotate_right(18, w15)),
                   right_shift(3, w15))
        s1  == xor(xor(rotate_right(17, w2), rotate_right(19, w2)),
                   right_shift(10, w2))
    IN  Append(W, wrapping_add(wrapping_add(s1, W[i - 7 + 1]),
                               wrapping_add(s0, W[i - 16 + 1])))

\* for i in lo..hi, in increasing order (cut in four as in add_loop).
RECURSIVE dyn_schedule(_, _, _)
dyn_schedule(W, lo, hi) ==
    IF hi <= lo THEN W
    ELSE IF hi - lo = 1 THEN dyn_schedule_step(W, lo)
    ELSE LET n  == (hi - lo + 3) \div 4
             m1 == lo + n
             m2 == IF m1 + n < hi THEN m1 + n ELSE hi
             m3 == IF m2 + n < hi THEN m2 + n ELSE hi
             q1 == dyn_schedule(W, lo, m1)
             q2 == dyn_schedule(q1, m1, m2)
             q3 == dyn_schedule(q2, m2, m3)
         IN  IF ready(q1) /\ ready(q2) /\ ready(q3)
             THEN dyn_schedule(q3, m3, hi)
             ELSE W

\* The body of `for i in 0..64`: v is the tuple of the working variables
\* a..h, Wi is W[i] and Ki is K[i].
dyn_round(v, Wi, Ki) ==
    LET a == v[1]  b == v[2]  c == v[3]  d == v[4]
        e == v[5]  f == v[6]  g == v[7]  h == v[8]
        S1  == xor(xor(rotate_right(6, e), rotate_right(11, e)),
                   rotate_right(25, e))
        Ch  == xor(and(e, f), and(not(e), g))
        T1  == wrapping_add(
                   wrapping_add(wrapping_add(wrapping_add(h, S1), Ch), Ki),
                   Wi)
        S0  == xor(xor(rotate_right(2, a), rotate_right(13, a)),
                   rotate_right(22, a))
        Maj == xor(xor(and(a, b), and(a, c)), and(b, c))
        T2  == wrapping_add(S0, Maj)
    IN  <<wrapping_add(T1, T2), a, b, c, wrapping_add(d, T1), e, f, g>>

\* for i in lo..hi, in increasing order (cut in four as in add_loop).
RECURSIVE dyn_rounds(_, _, _, _, _)
dyn_rounds(v, W, K, lo, hi) ==
    IF hi <= lo THEN v
    ELSE IF hi - lo = 1 THEN dyn_round(v, W[lo + 1], K[lo + 1])
    ELSE LET n  == (hi - lo + 3) \div 4
             m1 == lo + n
             m2 == IF m1 + n < hi THEN m1 + n ELSE hi
             m3 == IF m2 + n < hi THEN m2 + n ELSE hi
             q1 == dyn_rounds(v, W, K, lo, m1)
             q2 == dyn_rounds(q1, W, K, m1, m2)
             q3 == dyn_rounds(q2, W, K, m2, m3)
         IN  IF ready(q1) /\ ready(q2) /\ ready(q3)
             THEN dyn_rounds(q3, W, K, m3, hi)
             ELSE v

\* DynamicSha256::process_chunk past its assertion: the new self.state.
dyn_process_chunk(state, bits, K) ==
    LET field_values == bits_to_field(bits, 512)
        W16 == array([i \in 1..16 |->
                        SubSeq(field_values, 32 * (i - 1) + 1, 32 * i)])
        W   == dyn_schedule(W16, 16, 64)
        v   == dyn_rounds(state, W, K, 0, 64)
    IN  IF ready(W) /\ ready(v)
        THEN array([w \in 1..8 |-> wrapping_add(v[w], state[w])])
        ELSE state

\* ------------------------------------------------------------------------
\* native_sha256.rs : NativeSha256
\* ------------------------------------------------------------------------

\* The body of `for i in 16..64`: W holds the words of Rust indices 0..i-1
\* and gains W[i].
nat_schedule_step(W, i) ==
    LET w15 == W[i - 15 + 1]
        w2  == W[i - 2 + 1]
        s0  == xor(xor(rotate_right(7, w15), rotate_right(18, w15)),
                   right_shift(3, w15))
        s1  == xor(xor(rotate_right(17, w2), rotate_right(19, w2)),
                   right_shift(10, w2))
    IN  Append(W, wrapping_add(wrapping_add(s1, W[i - 7 + 1]),
                               wrapping_add(s0, W[i - 16 + 1])))

\* for i in lo..hi, in increasing order (cut in four as in add_loop).
RECURSIVE nat_schedule(_, _, _)
nat_schedule(W, lo, hi) ==
    IF hi <= lo THEN W
    ELSE IF hi - lo = 1 THEN nat_schedule_step(W, lo)
    ELSE LET n  == (hi - lo + 3) \div 4
             m1 == lo + n
             m2 == IF m1 + n < hi THEN m1 + n ELSE hi
             m3 == IF m2 + n < hi THEN m2 + n ELSE hi
             q1 == nat_schedule(W, lo, m1)
             q2 == nat_schedule(q1, m1, m2)
             q3 == nat_schedule(q2, m2, m3)
         IN  IF ready(q1) /\ ready(q2) /\ ready(q3)
             THEN nat_schedule(q3, m3, hi)
             ELSE W

\* A round that adds T1 alone into the new a, leaving T2 out.
nat_round_without_T2(v, Wi, Ki) ==
    LET a == v[1]  b == v[2]  c == v[3]  d == v[4]
        e == v[5]  f == v[6]  g == v[7]  h == v[8]
        S1  == xor(xor(rotate_right(6, e), rotate_right(11, e)),
                   rotate_right(25, e))
        Ch  == xor(and(e, f), and(not(e), g))
        T1  == wrapping_add(
                   wrapping_add(wrapping_add(wrapping_add(h, S1), Ch), Ki),
                   Wi)
    IN  <<T1, a, b, c, wrapping_add(d, T1), e, f, g>>

\* The body of `for i in 0..64`: v is the tuple of the working variables
\* a..h, Wi is W[i] and Ki is K[i].
nat_round(v, Wi, Ki) ==
    LET a == v[1]  b == v[2]  c == v[3]  d == v[4]
        e == v[5]  f == v[6]  g == v[7]  h == v[8]
        S1  == xor(xor(rotate_right(6, e), rotate_right(11, e)),
                   rotate_right(25, e))
        Ch  == xor(and(e, f), and(not(e), g))
        T1  == wrapping_add(
                   wrapping_add(wrapping_add(wrapping_add(h, S1), Ch), Ki),
                   Wi)
        S0  == xor(xor(rotate_right(2, a), rotate_right(13, a)),
                   rotate_right(22, a))
        Maj == xor(xor(and(a, b), and(a, c)), and(b, c))
        T2  == wrapping_add(S0, Maj)
    IN  <<wrapping_add(T1, T2), a, b, c, wrapping_add(d, T1), e, f, g>>

\* for i in lo..hi, in increasing order (cut in four as in add_loop).
RECURSIVE nat_rounds(_, _, _, _, _)
nat_rounds(v, W, K, lo, hi) ==
    IF hi <= lo THEN v
    ELSE IF hi - lo = 1 THEN nat_round(v, W[lo + 1], K[lo + 1])
    ELSE LET n  == (hi - lo + 3) \div 4
             m1 == lo + n
             m2 == IF m1 + n < hi THEN m1 + n ELSE hi
             m3 == IF m2 + n < hi THEN m2 + n ELSE hi
             q1 == nat_rounds(v, W, K, lo, m1)
             q2 == nat_rounds(q1, W, K, m1, m2)
             q3 == nat_rounds(q2, W, K, m2, m3)
         IN  IF ready(q1) /\ ready(q2) /\ ready(q3)
             THEN nat_rounds(q3, W, K, m3, hi)
             ELSE v

\* NativeSha256::process_chunk past its assertion: the new *state.
nat_process_chunk(state, bits, K) ==
    LET field_values == bits_to_field(bits, 512)
        W16 == array([i \in 1..16 |->
                        SubSeq(field_values, 32 * (i - 1) + 1, 32 * i)])
        W   == nat_schedule(W16, 16, 64)
        v   == nat_rounds(state, W, K, 0, 64)
    IN  IF ready(W) /\ ready(v)
        THEN array([w \in 1..8 |-> wrapping_add(v[w], state[w])])
        ELSE state

\* ------------------------------------------------------------------------
\* sha_helpers.rs : padding and digest utilities
\* ------------------------------------------------------------------------

zeros(n) == array([i \in 1..n |-> 0])

\* A zero fill that stops one bit early.
fill_to_447(len) == (447 - len) % 512

\* while padded.len() % 512 != 448 { padded.push(0) }: the number of pushes.
fill_to_448(len) == (448 - len) % 512

\* while padded.len() < max_bits { padded.push(0) }: the number of pushes.
fill_to_max(len, max_bits) == IF len < max_bits THEN max_bits - len ELSE 0

\* A sha256_pad without its assert_eq!: it returns whatever it has built.
sha256_pad_unchecked(input_bits, max_bits) ==
    LET marked  == Append(input_bits, 1)
        minimal == marked \o zeros((448 - Len(marked)) % 512)
                          \o to_bits_be(Len(input_bits), 64)
        padded  == minimal \o zeros(IF Len(minimal) < max_bits
                                    THEN max_bits - Len(minimal) ELSE 0)
    IN  [panicked |-> FALSE, padded |-> padded,
         output_hash_index |-> Len(minimal) - 64]

\* sha256_pad: the pair it returns, or the panic of its assert! or of its
\* assert_eq!.
sha256_pad(input_bits, max_bits) ==
    LET bit_length  == Len(input_bits)
        marked      == Append(input_bits, 1)
        minimal     == marked \o zeros(fill_to_448(Len(marked)))
                              \o to_bits_be(bit_length, 64)
        pre_pad_len == Len(minimal)
        padded      == minimal \o zeros(fill_to_max(pre_pad_len, max_bits))
    IN  IF pre_pad_len % 512 # 0 \/ Len(padded) # max_bits
        THEN [panicked |-> TRUE, padded |-> << >>, output_hash_index |-> 0]
        ELSE [panicked |-> FALSE, padded |-> padded,
              output_hash_index |-> pre_pad_len - 64]

\* The fold of bits_to_u32 over the bits lo..hi of a word: a bit counts as
\* 1 unless it is the field's zero.  acc | (b << k) adds b * 2^k, the bit k
\* of acc being clear.
RECURSIVE bits_fold(_, _, _)
bits_fold(bits, lo, hi) ==
    IF hi < lo THEN 0
    ELSE 2 * bits_fold(bits, lo, hi - 1) + (IF bits[hi] = 0 THEN 0 ELSE 1)

\* bits_to_u32: the u32 as <<high half, low half>>.
bits_to_u32(bits) == <<bits_fold(bits, 1, 16), bits_fold(bits, 17, 32)>>

HexDigits ==
    <<"0", "1", "2", "3", "4", "5", "6", "7",
      "8", "9", "a", "b", "c", "d", "e", "f">>

\* format!("{:04x}") of a 16-bit half.
hex4(n) ==
    HexDigits[(n \div 4096) + 1] \o HexDigits[((n \div 256) % 16) + 1]
        \o HexDigits[((n \div 16) % 16) + 1] \o HexDigits[(n % 16) + 1]

\* format!("{:08x}", u32)
hex8(u) == hex4(u[1]) \o hex4(u[2])

\* digest_to_hex: the eight words formatted and joined.
digest_to_hex(H) ==
    hex8(bits_to_u32(H[1])) \o hex8(bits_to_u32(H[2]))
        \o hex8(bits_to_u32(H[3])) \o hex8(bits_to_u32(H[4]))
        \o hex8(bits_to_u32(H[5])) \o hex8(bits_to_u32(H[6]))
        \o hex8(bits_to_u32(H[7])) \o hex8(bits_to_u32(H[8]))

\* slice::chunks(size): successive chunks of `size` elements, the last one
\* shorter when the length is no multiple of `size`.
chunks_of(v, size) ==
    array([k \in 1..((Len(v) + size - 1) \div size) |->
              SubSeq(v, size * (k - 1) + 1,
                     IF size * k < Len(v) THEN size * k ELSE Len(v))])

\* Option<T>
None == [some |-> FALSE, value |-> << >>]

Some(x) == [some |-> TRUE, value |-> x]

\* ------------------------------------------------------------------------
\* The hasher facades
\* ------------------------------------------------------------------------

\* A constructor that drops the init_state it is given.
ignore_init_state(opt) == initial_state

\* init_state.unwrap_or_else(|| initial_state::<F>())
unwrap_or_initial(opt) == IF opt.some THEN opt.value ELSE initial_state

\* DynamicSha256::new; chunks and pos are the locals of hash(), status its
\* position.
dyn_new(padded_preimage, index, opt_state) ==
    [padded_preimage |-> padded_preimage, digest_index |-> index,
     state |-> unwrap_or_initial(opt_state),
     chunks |-> << >>, pos |-> 0, status |-> "new"]

\* NativeSha256::new; state, chunks and pos are the locals of hash().
nat_new(padded_preimage) ==
    [padded_preimage |-> padded_preimage, state |-> << >>,
     chunks |-> << >>, pos |-> 0, status |-> "new"]

\* A hash() without its alignment assertion.
dyn_unchecked(padded_preimage) == TRUE

\* assert!(&self.padded_preimage.len() % 512 == 0) of DynamicSha256::hash
dyn_aligned(padded_preimage) == Len(padded_preimage) % 512 = 0

\* assert!(&self.padded_preimage.len() % 512 == 0) of NativeSha256::hash
nat_aligned(padded_preimage) == Len(padded_preimage) % 512 = 0

\* assert_eq!(bits.len(), 512) of process_chunk
chunk_ok(bits) == Len(bits) = 512

\* The chunks taken from the end of the preimage backwards.
dyn_chunks_reversed(padded_preimage) ==
    LET c == chunks_of(padded_preimage, 512)
    IN  array([k \in 1..Len(c) |-> c[Len(c) + 1 - k]])

\* self.padded_preimage.chunks(512) of DynamicSha256::hash
dyn_chunks(padded_preimage) == chunks_of(padded_preimage, 512)

\* self.padded_preimage.chunks(512) of NativeSha256::hash
nat_chunks(padded_preimage) == chunks_of(padded_preimage, 512)

NoDynamic ==
    [padded_preimage |-> << >>, digest_index |-> 0, state |-> << >>,
     chunks |-> << >>, pos |-> 0, status |-> "absent"]

NoNative ==
    [padded_preimage |-> << >>, state |-> << >>,
     chunks |-> << >>, pos |-> 0, status |-> "absent"]

\* ------------------------------------------------------------------------
\* Inputs
\* ------------------------------------------------------------------------

\* How many of the Messages are hashed.
NumMsgs == 3

\* Capacities of up to this many 512-bit blocks are requested.
MaxBlocks == 2

\* Raw inputs of 0..MaxInputBits bits are padded.
MaxInputBits == 450

\* How many of the TestWords are operands of the algebra.
NumWords == 10

\* The byte strings hashed: the zero byte of the tests' first case, "abc",
\* the 56-byte message of FIPS 180-4 (two blocks), the empty string, and
\* the bytes 1..64.
Messages ==
    << <<0>>,
       <<97, 98, 99>>,
       <<97, 98, 99, 100, 98, 99, 100, 101, 99, 100, 101, 102, 100, 101,
         102, 103, 101, 102, 103, 104, 102, 103, 104, 105, 103, 104, 105,
         106, 104, 105, 106, 107, 105, 106, 107, 108, 106, 107, 108, 109,
         107, 108, 109, 110, 108, 109, 110, 111, 109, 110, 111, 112, 110,
         111, 112, 113>>,
       << >>,
       <<1, 2, 3, 4, 5, 6, 7, 8, 9, 10, 11, 12, 13, 14, 15, 16, 17, 18,
         19, 20, 21, 22, 23, 24, 25, 26, 27, 28, 29, 30, 31, 32, 33, 34,
         35, 36, 37, 38, 39, 40, 41, 42, 43, 44, 45, 46, 47, 48, 49, 50,
         51, 52, 53, 54, 55, 56, 57, 58, 59, 60, 61, 62, 63, 64>> >>

\* hex::encode(Sha256::digest(bytes)) of the reference implementation, for
\* each of the Messages.
Sha256Hex ==
    << "6e340b9cffb37a989ca544e6bb780a2c78901d3fb33738768511a30617afa01d",
       "ba7816bf8f01cfea414140de5dae2223b00361a396177a9cb410ff61f20015ad",
       "248d6a61d20638b8e5c026930c3e6039a33ce45964ff2167f6ecedd419db06c1",
       "e3b0c44298fc1c149afbf4c8996fb92427ae41e4649b934ca495991b7852b855",
       "20a7ec84684f7fe124cb3727d049734ab0b7da2f52fcafbcef989ecfd91e870b" >>

\* The capacities requested: whole blocks, and 88 bits beyond whole blocks.
Capacities ==
    {512 * k : k \in 0..MaxBlocks} \cup {512 * k + 88 : k \in 0..MaxBlocks}

\* Raw bit inputs: all ones, or ones at the multiples of three.
Patterns == {"ones", "thirds"}

pattern_bits(pat, L) ==
    array([i \in 1..L |-> IF pat = "ones" \/ i % 3 = 0 THEN 1 ELSE 0])

\* Preimages handed to the hashers without sha256_pad: no block, an
\* unaligned one, one block of ones.
RawPreimages == {zeros(0), pattern_bits("ones", 100), pattern_bits("ones", 512)}

\* A state other than the initial one to resume from.
alt_state == SubSeq(round_constants, 9, 16)

\* Operands of the algebra, as 16-bit halves.
TestWords ==
    << <<0, 0>>, <<0, 1>>, <<65535, 65535>>, <<32768, 0>>, <<0, 65535>>,
       <<1, 0>>, <<65535, 0>>, <<47736, 5823>>, <<43690, 21845>>,
       <<32767, 65535>>, <<4660, 22136>>, <<27145, 58983>> >>

Amounts == {0, 7, 31, 32, 40}

\* ------------------------------------------------------------------------
\* State
\* ------------------------------------------------------------------------

VARIABLES
    pc,            \* where the caller stands
    msg,           \* the index of the message being hashed, 0 when none
    input_bits,    \* the arguments of the sha256_pad call
    max_bits,
    padded,        \* the caller's padded preimage and digest index
    digest_index,
    nat,           \* the NativeSha256 instance and the locals of its hash()
    dyn,           \* the DynamicSha256 instance and the locals of its hash()
    init_state,    \* the init_state handed to DynamicSha256::new
    split,         \* the chunks given to the first instance of a chain
    native_hash,   \* what NativeSha256::hash returned
    dynamic_hash,  \* what DynamicSha256::hash returned for the whole preimage
    first_hash,    \* ... for the first part of the preimage
    chained_hash,  \* ... for the second part, resumed from first_hash
    hex,           \* the digest_to_hex strings
    operands,      \* the operands of the algebra
    results        \* what the algebra returned

vars ==
    <<pc, msg, input_bits, max_bits, padded, digest_index, nat, dyn,
      init_state, split, native_hash, dynamic_hash, first_hash, chained_hash,
      hex, operands, results>>

NoOperands == [a |-> << >>, b |-> << >>, amount |-> 0]

NoResults ==
    [and |-> << >>, not |-> << >>, xor |-> << >>, rotate_right |-> << >>,
     right_shift |-> << >>, wrapping_add |-> << >>]

Init ==
    /\ pc = "start"
    /\ msg = 0
    /\ input_bits = << >>
    /\ max_bits = 0
    /\ padded = << >>
    /\ digest_index = 0
    /\ nat = NoNative
    /\ dyn = NoDynamic
    /\ init_state = None
    /\ split = 0
    /\ native_hash = None
    /\ dynamic_hash = None
    /\ first_hash = None
    /\ chained_hash = None
    /\ hex = [native |-> "", dynamic |-> ""]
    /\ operands = NoOperands
    /\ results = NoResults

\* ------------------------------------------------------------------------
\* Actions
\* ------------------------------------------------------------------------

\* One call of each function of the field algebra.
Algebra(a, b, amount) ==
    /\ pc = "start"
    /\ pc' = "algebra"
    /\ operands' = [a |-> a, b |-> b, amount |-> amount]
    /\ results' = [and |-> and(a, b), not |-> not(a), xor |-> xor(a, b),
                   rotate_right |-> rotate_right(amount, a),
                   right_shift |-> right_shift(amount, a),
                   wrapping_add |-> wrapping_add(a, b)]
    /\ UNCHANGED <<msg, input_bits, max_bits, padded, digest_index, nat, dyn,
                   init_state, split, native_hash, dynamic_hash, first_hash,
                   chained_hash, hex>>

\* let (padded, digest_index) = sha256_pad(bits, capacity);
Pad(m, bits, capacity) ==
    /\ pc = "start"
    /\ msg' = m
    /\ input_bits' = bits
    /\ max_bits' = capacity
    /\ LET r == sha256_pad(bits, capacity)
       IN  /\ pc' = IF r.panicked THEN "pad_panic" ELSE "padded"
           /\ padded' = r.padded
           /\ digest_index' = r.output_hash_index
    /\ UNCHANGED <<nat, dyn, init_state, split, native_hash, dynamic_hash,
                   first_hash, chained_hash, hex, operands, results>>

\* A preimage that does not come from sha256_pad.
Supply(p) ==
    /\ pc = "start"
    /\ pc' = "padded"
    /\ padded' = p
    /\ UNCHANGED <<msg, input_bits, max_bits, digest_index, nat, dyn,
                   init_state, split, native_hash, dynamic_hash, first_hash,
                   chained_hash, hex, operands, results>>

\* NativeSha256::<Fp>::new(padded)
NatNew ==
    /\ pc = "padded"
    /\ pc' = "native"
    /\ nat' = nat_new(padded)
    /\ UNCHANGED <<msg, input_bits, max_bits, padded, digest_index, dyn,
                   init_state, split, native_hash, dynamic_hash, first_hash,
                   chained_hash, hex, operands, results>>

\* NativeSha256::hash up to its loop: the assertion, state, K and chunks.
NatHashBegin ==
    /\ pc = "native"
    /\ nat.status = "new"
    /\ IF nat_aligned(nat.padded_preimage)
       THEN /\ nat' = [nat EXCEPT !.state = initial_state,
                                  !.chunks = nat_chunks(nat.padded_preimage),
                                  !.status = "hashing"]
            /\ pc' = pc
       ELSE /\ nat' = [nat EXCEPT !.status = "alignment_panic"]
            /\ pc' = "dynamic"
    /\ UNCHANGED <<msg, input_bits, max_bits, padded, digest_index, dyn,
                   init_state, split, native_hash, dynamic_hash, first_hash,
                   chained_hash, hex, operands, results>>

\* One iteration of `for chunk in chunks { self.process_chunk(..) }`.
NatProcessChunk ==
    /\ pc = "native"
    /\ nat.status = "hashing"
    /\ nat.pos < Len(nat.chunks)
    /\ LET chunk == nat.chunks[nat.pos + 1]
       IN  IF chunk_ok(chunk)
           THEN /\ nat' = [nat EXCEPT
                             !.state = nat_process_chunk(nat.state, chunk,
                                                         round_constants),
                             !.pos = nat.pos + 1]
                /\ pc' = pc
           ELSE /\ nat' = [nat EXCEPT !.status = "chunk_panic"]
                /\ pc' = "dynamic"
    /\ UNCHANGED <<msg, input_bits, max_bits, padded, digest_index, dyn,
                   init_state, split, native_hash, dynamic_hash, first_hash,
                   chained_hash, hex, operands, results>>

\* The loop is over: hash returns the state and the instance is gone.
NatReturn ==
    /\ pc = "native"
    /\ nat.status = "hashing"
    /\ nat.pos = Len(nat.chunks)
    /\ native_hash' = Some(nat.state)
    /\ nat' = NoNative
    /\ pc' = "native_hex"
    /\ UNCHANGED <<msg, input_bits, max_bits, padded, digest_index, dyn,
                   init_state, split, dynamic_hash, first_hash, chained_hash,
                   hex, operands, results>>

\* let native_hash_hex = digest_to_hex(native_hash);
NatHex ==
    /\ pc = "native_hex"
    /\ hex' = [hex EXCEPT !.native = digest_to_hex(native_hash.value)]
    /\ pc' = "dynamic"
    /\ UNCHANGED <<msg, input_bits, max_bits, padded, digest_index, nat, dyn,
                   init_state, split, native_hash, dynamic_hash, first_hash,
                   chained_hash, operands, results>>

\* DynamicSha256::<Fp>::new(padded, index, opt_state) for the whole preimage
DynNew(index, opt_state) ==
    /\ pc = "dynamic"
    /\ pc' = "whole"
    /\ init_state' = opt_state
    /\ dyn' = dyn_new(padded, index, opt_state)
    /\ UNCHANGED <<msg, input_bits, max_bits, padded, digest_index, nat,
                   split, native_hash, dynamic_hash, first_hash, chained_hash,
                   hex, operands, results>>

DynPhases == {"whole", "first", "second"}

\* DynamicSha256::hash up to its loop: the assertion, K and chunks.
DynHashBegin ==
    /\ pc \in DynPhases
    /\ dyn.status = "new"
    /\ IF dyn_aligned(dyn.padded_preimage)
       THEN /\ dyn' = [dyn EXCEPT !.chunks = dyn_chunks(dyn.padded_preimage),
                                  !.status = "hashing"]
            /\ pc' = pc
       ELSE /\ dyn' = [dyn EXCEPT !.status = "alignment_panic"]
            /\ pc' = "done"
    /\ UNCHANGED <<msg, input_bits, max_bits, padded, digest_index, nat,
                   init_state, split, native_hash, dynamic_hash, first_hash,
                   chained_hash, hex, operands, results>>

\* One iteration of `for chunk in chunks { self.process_chunk(..) }`.
DynProcessChunk ==
    /\ pc \in DynPhases
    /\ dyn.status = "hashing"
    /\ dyn.pos < Len(dyn.chunks)
    /\ LET chunk == dyn.chunks[dyn.pos + 1]
       IN  IF chunk_ok(chunk)
           THEN /\ dyn' = [dyn EXCEPT
                             !.state = dyn_process_chunk(dyn.state, chunk,
                                                         round_constants),
                             !.pos = dyn.pos + 1]
                /\ pc' = pc
           ELSE /\ dyn' = [dyn EXCEPT !.status = "chunk_panic"]
                /\ pc' = "done"
    /\ UNCHANGED <<msg, input_bits, max_bits, padded, digest_index, nat,
                   init_state, split, native_hash, dynamic_hash, first_hash,
                   chained_hash, hex, operands, results>>

\* The loop is over: hash returns self.state and the instance is gone.
DynReturn ==
    /\ pc \in DynPhases
    /\ dyn.status = "hashing"
    /\ dyn.pos = Len(dyn.chunks)
    /\ dyn' = NoDynamic
    /\ dynamic_hash' = IF pc = "whole" THEN Some(dyn.state) ELSE dynamic_hash
    /\ first_hash' = IF pc = "first" THEN Some(dyn.state) ELSE first_hash
    /\ chained_hash' = IF pc = "second" THEN Some(dyn.state) ELSE chained_hash
    /\ pc' = CASE pc = "whole" -> "whole_hex"
               [] pc = "first" -> "resume"
               [] pc = "second" -> "done"
    /\ UNCHANGED <<msg, input_bits, max_bits, padded, digest_index, nat,
                   init_state, split, native_hash, hex, operands, results>>

\* let dynamic_hash_hex = digest_to_hex(dynamic_hash);
DynHex ==
    /\ pc = "whole_hex"
    /\ hex' = [hex EXCEPT !.dynamic = digest_to_hex(dynamic_hash.value)]
    /\ pc' = "chain"
    /\ UNCHANGED <<msg, input_bits, max_bits, padded, digest_index, nat, dyn,
                   init_state, split, native_hash, dynamic_hash, first_hash,
                   chained_hash, operands, results>>

\* DynamicSha256::new(p1, _, init_state) for the first k chunks of the
\* preimage.
DynNewFirst(k) ==
    /\ pc = "chain"
    /\ pc' = "first"
    /\ split' = k
    /\ dyn' = dyn_new(SubSeq(padded, 1, 512 * k), digest_index, init_state)
    /\ UNCHANGED <<msg, input_bits, max_bits, padded, digest_index, nat,
                   init_state, native_hash, dynamic_hash, first_hash,
                   chained_hash, hex, operands, results>>

\* DynamicSha256::new(p2, _, Some(first_hash)) for the remaining chunks.
DynNewSecond ==
    /\ pc = "resume"
    /\ pc' = "second"
    /\ dyn' = dyn_new(SubSeq(padded, 512 * split + 1, Len(padded)),
                      digest_index, Some(first_hash.value))
    /\ UNCHANGED <<msg, input_bits, max_bits, padded, digest_index, nat,
                   init_state, split, native_hash, dynamic_hash, first_hash,
                   chained_hash, hex, operands, results>>

Word(t) == word_of(TestWords[t])

Next ==
    \/ \E s \in 1..NumWords, t \in 1..NumWords, amount \in Amounts :
          Algebra(Word(s), Word(t), amount)
    \/ \E m \in 1..NumMsgs, capacity \in Capacities :
          Pad(m, from_bytes(Messages[m]), capacity)
    \/ \E p \in RawPreimages : Supply(p)
    \/ NatNew
    \/ NatHashBegin
    \/ NatProcessChunk
    \/ NatReturn
    \/ NatHex
    \/ \E index \in {digest_index, 0}, opt_state \in {None, Some(alt_state)} :
          DynNew(index, opt_state)
    \/ DynHashBegin
    \/ DynProcessChunk
    \/ DynReturn
    \/ DynHex
    \/ \E k \in 0..(Len(padded) \div 512) : DynNewFirst(k)
    \/ DynNewSecond

Spec == Init /\ [][Next]_vars

\* sha256_pad alone, over raw inputs of every length up to MaxInputBits.
PadNext ==
    \E L \in 0..MaxInputBits, pat \in Patterns, capacity \in Capacities :
        Pad(0, pattern_bits(pat, L), capacity)

SpecPad == Init /\ [][PadNext]_vars

\* ------------------------------------------------------------------------
\* Properties
\* ------------------------------------------------------------------------

\* The smallest multiple of 512 that is >= L + 65.
minimal(L) == 512 * ((L + 65 + 511) \div 512)

\* Bit j (1..64) of L written as a 64-bit big-endian integer, L < 2^31.
length_bit(L, j) == IF 64 - j > 30 THEN 0 ELSE (L \div (2 ^ (64 - j))) % 2

ValidWord(w) == \A i \in 1..Len(w) : w[i] \in {0, 1}

ValidState(st) == \A w \in 1..Len(st) : ValidWord(st[w])

\* x + y modulo 2^32 on u32s given by their 16-bit halves.
sum32(x, y) ==
    LET lo == x[2] + y[2]
        hi == x[1] + y[1] + (lo \div 65536)
    IN  <<hi % 65536, lo % 65536>>

\* C1: a message padded by sha256_pad to its minimal capacity and hashed by
\* NativeSha256, or by DynamicSha256 with no init_state, formats under
\* digest_to_hex to the reference SHA-256 hex digest of the message.
OracleEquivalence ==
    (msg # 0 /\ pc # "start" /\ max_bits = minimal(8 * Len(Messages[msg])))
        => /\ pc \notin {"pad_panic", "padded", "native", "native_hex"}
                => hex.native = Sha256Hex[msg]
           /\ (pc \in {"chain", "first", "resume", "second", "done"}
               /\ ~init_state.some)
                => hex.dynamic = Sha256Hex[msg]

\* The two-block message has been hashed by both hashers.
OracleWitness ==
    /\ pc = "chain"
    /\ msg = 3
    /\ max_bits = 1024
    /\ ~init_state.some
    /\ hex.native = Sha256Hex[3]
    /\ hex.dynamic = Sha256Hex[3]

\* C2: for an input of L bits and a capacity C >= minimal(L), sha256_pad
\* returns C bits and the index minimal(L) - 64; the bits are the input, a
\* 1, zeros up to the index, L as 64 big-endian bits, and zeros up to C.
PaddingCorrect ==
    LET L == Len(input_bits)
    IN  (pc \in {"padded", "pad_panic"} /\ max_bits >= minimal(L))
            => /\ pc = "padded"
               /\ Len(padded) = max_bits
               /\ digest_index = minimal(L) - 64
               /\ SubSeq(padded, 1, L) = input_bits
               /\ padded[L + 1] = 1
               /\ \A i \in (L + 2)..digest_index : padded[i] = 0
               /\ \A j \in 1..64 : padded[digest_index + j] = length_bit(L, j)
               /\ \A i \in (digest_index + 65)..max_bits : padded[i] = 0

\* 448 bits need two blocks and are padded to a capacity beyond them.
PaddingWitness ==
    /\ pc = "padded"
    /\ Len(input_bits) = 448
    /\ max_bits = 1112
    /\ Len(padded) = 1112
    /\ digest_index = 960

\* C3: every padded sequence sha256_pad returns has a length that is a
\* multiple of 512.
PaddedWholeBlocks == pc = "padded" => Len(padded) % 512 = 0

\* C4: sha256_pad panics, returning nothing, when max_bits is below the
\* minimally padded length, and does not panic when max_bits equals it.
CapacityError ==
    LET L == Len(input_bits)
    IN  pc \in {"padded", "pad_panic"}
            => /\ max_bits < minimal(L)
                    => pc = "pad_panic" /\ padded = << >> /\ digest_index = 0
               /\ max_bits = minimal(L)
                    => pc = "padded" /\ Len(padded) = max_bits

\* One block was asked for where two are needed.
CapacityWitness ==
    /\ pc = "pad_panic"
    /\ Len(input_bits) = 448
    /\ max_bits = 512

\* C5: on the same padded preimage DynamicSha256 with no init_state ends
\* its loop with the state NativeSha256 returned, and returns it, whatever
\* digest_index it was constructed with.
ModeEquivalence ==
    /\ (pc = "whole" /\ dyn.status = "hashing" /\ dyn.pos = Len(dyn.chunks)
        /\ ~init_state.some)
            => native_hash.some /\ dyn.state = native_hash.value
    /\ (dynamic_hash.some /\ ~init_state.some)
            => native_hash.some /\ dynamic_hash.value = native_hash.value

\* Two chunks went through a DynamicSha256 whose digest_index is not the
\* one sha256_pad reported.
ModeWitness ==
    /\ pc = "whole"
    /\ dyn.status = "hashing"
    /\ dyn.pos = 2
    /\ Len(dyn.chunks) = 2
    /\ ~init_state.some
    /\ dyn.digest_index # digest_index
    /\ dyn.state = native_hash.value

\* C6: a hasher whose preimage is no multiple of 512 bits long panics on
\* its alignment assertion and does nothing else: no chunk is compressed,
\* the state of DynamicSha256 is the one it was constructed with and
\* NativeSha256 has not set up its state.
AlignmentError ==
    /\ (dyn.status \notin {"absent", "new"}
        /\ Len(dyn.padded_preimage) % 512 # 0)
            => /\ dyn.status = "alignment_panic"
               /\ dyn.pos = 0
               /\ dyn.chunks = << >>
               /\ dyn.state = unwrap_or_initial(init_state)
    /\ (nat.status \notin {"absent", "new"}
        /\ Len(nat.padded_preimage) % 512 # 0)
            => /\ nat.status = "alignment_panic"
               /\ nat.pos = 0
               /\ nat.chunks = << >>
               /\ nat.state = << >>
    /\ dyn.status = "alignment_panic" => Len(dyn.padded_preimage) % 512 # 0
    /\ nat.status = "alignment_panic" => Len(nat.padded_preimage) % 512 # 0

\* Both hashers refused the 600 bits sha256_pad returned.
AlignmentWitness ==
    /\ Len(padded) = 600
    /\ nat.status = "alignment_panic"
    /\ dyn.status = "alignment_panic"
    /\ init_state.some

\* C7: wrapping_add of the big-endian words of x and y is the big-endian
\* word of (x + y) mod 2^32.
WrappingAddModular ==
    pc = "algebra"
        => results.wrapping_add =
               word_of(sum32(bits_to_u32(operands.a), bits_to_u32(operands.b)))

\* 0xffffffff + 1 = 0: the carry runs through all 32 bits and is dropped.
WrappingAddWitness ==
    /\ pc = "algebra"
    /\ operands.a = Word(3)
    /\ operands.b = Word(2)
    /\ results.wrapping_add = Word(1)

\* C8: on words of bits, and, not, xor, rotate_right, right_shift and
\* wrapping_add return words of bits, and every state of a hasher and every
\* state it returns consists of bits.
BitValidity ==
    /\ pc = "algebra"
            => \A f \in DOMAIN results :
                   Len(results[f]) = Len(operands.a) /\ ValidWord(results[f])
    /\ ValidState(dyn.state)
    /\ ValidState(nat.state)
    /\ ValidState(native_hash.value)
    /\ ValidState(dynamic_hash.value)
    /\ ValidState(first_hash.value)
    /\ ValidState(chained_hash.value)

\* 1 XOR 1 in every position, where a + b alone is 2.
BitValidityWitness ==
    /\ pc = "algebra"
    /\ operands.a = Word(3)
    /\ operands.b = Word(3)
    /\ results.xor = Word(1)
    /\ results.and = Word(3)

\* The chunks of a hasher are the successive 512-bit pieces of its preimage,
\* its loop never runs past them and no chunk fails the size assertion.
ChunksInOrder(h) ==
    /\ h.status # "chunk_panic"
    /\ h.status = "hashing"
            => /\ Len(h.padded_preimage) = 512 * Len(h.chunks)
               /\ h.pos <= Len(h.chunks)
               /\ \A k \in 1..Len(h.chunks) :
                      h.chunks[k] = SubSeq(h.padded_preimage,
                                           512 * (k - 1) + 1, 512 * k)

\* The k-th piece of a preimage, k counted from 0.
piece(p, k) == SubSeq(p, 512 * k + 1, 512 * k + 512)

\* What the DynamicSha256::hash that ends in this step returns.
dyn_returned ==
    CASE pc = "whole" -> dynamic_hash'
      [] pc = "first" -> first_hash'
      [] pc = "second" -> chained_hash'

\* A step of a running DynamicSha256::hash compresses the next piece onto
\* the state, or returns the state once all n pieces are done.
DynSequenced ==
    (dyn.status = "hashing" /\ dyn' # dyn)
        => \/ /\ dyn.pos < Len(dyn.padded_preimage) \div 512
              /\ dyn' = [dyn EXCEPT
                           !.pos = dyn.pos + 1,
                           !.state = dyn_process_chunk(
                                         dyn.state,
                                         piece(dyn.padded_preimage, dyn.pos),
                                         round_constants)]
           \/ /\ dyn.pos = Len(dyn.padded_preimage) \div 512
              /\ dyn'.status = "absent"
              /\ dyn_returned = Some(dyn.state)

\* The same of NativeSha256::hash.
NatSequenced ==
    (nat.status = "hashing" /\ nat' # nat)
        => \/ /\ nat.pos < Len(nat.padded_preimage) \div 512
              /\ nat' = [nat EXCEPT
                           !.pos = nat.pos + 1,
                           !.state = nat_process_chunk(
                                         nat.state,
                                         piece(nat.padded_preimage, nat.pos),
                                         round_constants)]
           \/ /\ nat.pos = Len(nat.padded_preimage) \div 512
              /\ nat'.status = "absent"
              /\ native_hash' = Some(nat.state)

\* A hash() of an empty preimage returns the state it started from.
EmptyReturnsInitial ==
    Len(padded) = 0
        => /\ native_hash.some => native_hash.value = initial_state
           /\ dynamic_hash.some
                => dynamic_hash.value = unwrap_or_initial(init_state)

\* C9: hash() on a preimage of n * 512 bits compresses its n successive
\* 512-bit pieces in order, each onto the state the previous one left,
\* filler chunks included, never trips the chunk-size assertion, and returns
\* after the n-th: every step of the loop moves pos up by one until it is n,
\* where the only step is the return.  For n = 0 the initial state returns.
ChunkSequencing ==
    /\ [](ChunksInOrder(dyn) /\ ChunksInOrder(nat) /\ EmptyReturnsInitial)
    /\ [][DynSequenced /\ NatSequenced]_vars

\* The second chunk, all filler beyond the length field, has been
\* compressed.
ChunkSequencingWitness ==
    /\ msg = 1
    /\ max_bits = 1024
    /\ dyn.status = "hashing"
    /\ dyn.pos = 2
    /\ 512 * (dyn.pos - 1) >= digest_index + 64

\* C10: hashing p1 and then p2 resumed from the state p1 gave returns what
\* hashing p1 ++ p2 at once returns, from whatever initial state.
ChainedHashing ==
    chained_hash.some
        => dynamic_hash.some /\ chained_hash.value = dynamic_hash.value

\* A two-chunk preimage cut in the middle, started from a state of the
\* caller's.
ChainedWitness ==
    /\ chained_hash.some
    /\ Len(padded) = 1024
    /\ split = 1
    /\ init_state.some
    /\ first_hash.value # dynamic_hash.value
    /\ chained_hash.value = dynamic_hash.value

====
